---- MODULE Spec2Model ----
(***************************************************************************)
(* Songs CRUD API (FastAPI handlers in app/main.py, SongCRUD service in    *)
(* app/crud.py, pydantic schemas in app/schemas.py) over one DynamoDB      *)
(* table keyed by "id".                                                    *)
(*                                                                         *)
(* A string is modelled by its length (the strings "a", "aa", ...), so a   *)
(* name, a path and a plays count are all integers.  A Python dict (a      *)
(* request body, a stored item, a boto3 response) is a function whose      *)
(* domain is the set of keys that are present; None and the empty dict are *)
(* both the empty function.                                                *)
(*                                                                         *)
(* Requests are served by any number of worker processes sharing the       *)
(* table, so they interleave between storage calls; every storage call is  *)
(* one atomic step of the store.                                           *)
(***************************************************************************)
EXTENDS Integers, Sequences, FiniteSets, TLC

\* ---- bounds of the model
MaxSongs == 2
MaxUpdates == 1
MaxLists == 1
PageSize == 1
MaxAccesses == 3

\* ---- program constants
MaxNameLen == 200
HTTP_200_OK == 200
HTTP_201_CREATED == 201
HTTP_404_NOT_FOUND == 404
HTTP_422_UNPROCESSABLE_ENTITY == 422
HTTP_500_INTERNAL_SERVER_ERROR == 500

VARIABLES
  store,      \* the table TBL_SONG: id -> item
  next_uuid,  \* how many ids uuid4 has generated for stored songs
  inflight,   \* requests suspended between two storage calls
  n_updates,  \* PUT requests that have reached their update_item call
  n_lists,    \* GET /songs requests that needed a second page
  resp,       \* the response being sent, or NoResponse
  deleted,    \* ids a delete_item call has removed
  written,    \* id -> the item last written to it, for the ids not deleted since
  overlap,    \* whether two requests have ever been in flight together
  _dynamodb_resource,  \* db_config._dynamodb_resource
  _table,     \* db_config._table
  aws,        \* what DynamoDB answers about the table TBL_SONG
  caller,     \* where the access to db_config.table in progress stands
  accesses,   \* the outcomes of the accesses to db_config.table so far
  history     \* a song before its updates, and the update_item calls made

songvars == <<store, next_uuid, inflight, n_updates, n_lists, resp, deleted,
              written, overlap>>

dbvars == <<_dynamodb_resource, _table, aws, caller, accesses>>

vars == <<songvars, dbvars, history>>

\* ---- Python values
None == [k \in {} |-> 0]

Get(d, k) == IF k \in DOMAIN d THEN d[k] ELSE None

\* ---- request bodies
Fields == {"name", "path", "plays"}

NameInputs == {1, MaxNameLen}
PathInputs == {1}
PlaysInputs == {0, 5}

InputValues(k) ==
  CASE k = "name" -> NameInputs
    [] k = "path" -> PathInputs
    [] OTHER -> PlaysInputs

\* bodies every field of which, when present, satisfies its constraint
WellFormedBodies ==
  UNION { { b \in [S -> NameInputs \cup PathInputs \cup PlaysInputs] :
              \A k \in S : b[k] \in InputValues(k) } : S \in SUBSET Fields }

\* bodies with one field out of its constraint
FaultyBodies ==
  { [name |-> 0, path |-> 1], [name |-> MaxNameLen + 1, path |-> 1],
    [name |-> 1, path |-> 1, plays |-> -1],
    [name |-> 0], [name |-> MaxNameLen + 1], [plays |-> -1] }

Bodies == WellFormedBodies \cup FaultyBodies

\* (a variant without max_length)
ValidSongBase_no_max_length(body) ==
  /\ "name" \in DOMAIN body
  /\ body.name >= 1
  /\ "path" \in DOMAIN body
  /\ ("plays" \in DOMAIN body => body.plays >= 0)

\* schemas.SongBase: name and path required, plays optional
ValidSongBase(body) ==
  /\ "name" \in DOMAIN body
  /\ body.name >= 1
  /\ body.name <= MaxNameLen
  /\ "path" \in DOMAIN body
  /\ ("plays" \in DOMAIN body => body.plays >= 0)

\* the parsed SongCreate: plays defaults to 0
SongCreate(body) ==
  [name |-> body.name, path |-> body.path,
   plays |-> IF "plays" \in DOMAIN body THEN body.plays ELSE 0]

\* schemas.SongUpdate: every field optional
ValidSongUpdate(body) ==
  /\ ("name" \in DOMAIN body => body.name >= 1 /\ body.name <= MaxNameLen)
  /\ ("plays" \in DOMAIN body => body.plays >= 0)

\* schemas.SongResponse as a response_model: the returned dict must validate
ValidSongResponse(item) ==
  /\ "id" \in DOMAIN item
  /\ ValidSongBase([k \in DOMAIN item \cap Fields |-> item[k]])

SongResponse(item) ==
  [id |-> item.id, name |-> item.name, path |-> item.path,
   plays |-> IF "plays" \in DOMAIN item THEN item.plays ELSE 0]

\* ---- the DynamoDB table, one operator per call the service makes
ClientError == [Error |-> "ClientError"]

Raised(out) == "Error" \in DOMAIN out

Failed(tbl) == [table |-> tbl, out |-> ClientError]

table_put_item(tbl, Item) ==
  [table |-> [k \in DOMAIN tbl \cup {Item.id} |->
                IF k = Item.id THEN Item ELSE tbl[k]],
   out |-> None]

table_get_item(tbl, id) ==
  [table |-> tbl,
   out |-> IF id \in DOMAIN tbl THEN [Item |-> tbl[id]] ELSE None]

table_delete_item(tbl, id) ==
  [table |-> [k \in DOMAIN tbl \ {id} |-> tbl[k]],
   out |-> IF id \in DOMAIN tbl THEN [Attributes |-> tbl[id]] ELSE None]

\* DynamoDB rejects an UpdateItem whose ExpressionAttributeNames map is
\* present and empty (ValidationException); otherwise SET assigns each named
\* attribute, creating the item when the key is absent, and ALL_NEW returns
\* the item as written
table_update_item(tbl, id, parts, names, values) ==
  IF DOMAIN names = {}
  THEN Failed(tbl)
  ELSE LET old == IF id \in DOMAIN tbl THEN tbl[id] ELSE [id |-> id]
           attr(p) == IF p.attr \in DOMAIN names THEN names[p.attr]
                      ELSE p.attr
           set == {attr(parts[i]) : i \in 1..Len(parts)}
           valOf(a) ==
             values[parts[CHOOSE i \in 1..Len(parts) :
                            attr(parts[i]) = a].val]
           new == [k \in DOMAIN old \cup set |->
                     IF k \in set THEN valOf(k) ELSE old[k]]
       IN [table |-> [k \in DOMAIN tbl \cup {id} |->
                        IF k = id THEN new ELSE tbl[k]],
           out |-> [Attributes |-> new]]

\* the keys after ExclusiveStartKey (0: none) in the store's scan order
Remaining(tbl, start) ==
  SelectSeq([i \in 1..MaxSongs |-> i],
            LAMBDA k : k > start /\ k \in DOMAIN tbl)

\* a scan page of n items; with_key: the page carries LastEvaluatedKey
table_scan(tbl, start, n, with_key) ==
  LET rem == Remaining(tbl, start)
      Items == [i \in 1..n |-> tbl[rem[i]]]
  IN [table |-> tbl,
      out |-> IF with_key
              THEN [Items |-> Items, LastEvaluatedKey |-> rem[n]]
              ELSE [Items |-> Items]]

\* the pages the store may answer with: at most PageSize items; a cursor
\* whenever items remain, and possibly when the page ended at the limit
ScanChoices(tbl, start) ==
  LET len == Len(Remaining(tbl, start))
  IN { c \in (0..PageSize) \X BOOLEAN :
         /\ c[1] <= len
         /\ (len > 0 => c[1] > 0)
         /\ (c[1] < len => c[2])
         /\ (c[2] => c[1] > 0)
         /\ (c[2] /\ c[1] = len => c[1] = PageSize) }

\* ids a client can send: every uuid the service can have generated
SongIds == 1..MaxSongs

\* ---- responses
NoResponse == [op |-> "none"]

\* a response, with the request it answers (op, id, input), the storage calls
\* the request made (calls, pages) and the service's outcome: "rejected"
\* before the service ran, "raised", "not_found" (None) or "returned"
Response(op, id, input, outcome, status, body, calls) ==
  [op |-> op, id |-> id, input |-> input, outcome |-> outcome,
   status |-> status, body |-> body, calls |-> calls, pages |-> <<>>]

\* ---- service outcomes: a returned value or a raised Exception
Return(v) == [ret |-> v]
Raise == [exc |-> "Exception"]

\* ---- SongCRUD.create_song and POST /songs
\* (a variant that stores the default play count whatever the input gives)
SongCRUD_create_song_zero_plays(song_data, song_id, out) ==
  LET item == [id |-> song_id, name |-> song_data.name,
               path |-> song_data.path, plays |-> 0]
  IN IF Raised(out) THEN Raise ELSE Return(item)

SongCRUD_create_song(song_data, song_id, out) ==
  LET item == [id |-> song_id, name |-> song_data.name,
               path |-> song_data.path, plays |-> song_data.plays]
  IN IF Raised(out) THEN Raise ELSE Return(item)

\* what a handler with response_model=SongResponse sends for a returned dict
Serialize(op, id, input, status, item, calls) ==
  IF ValidSongResponse(item)
  THEN Response(op, id, input, "returned", status, SongResponse(item), calls)
  ELSE Response(op, id, input, "returned", HTTP_500_INTERNAL_SERVER_ERROR,
                None, calls)

create_song_rejected(body) ==
  /\ ~ValidSongBase(body)
  /\ resp' = Response("create_song", 0, body, "rejected",
                      HTTP_422_UNPROCESSABLE_ENTITY, None, <<>>)
  /\ UNCHANGED <<store, next_uuid, inflight, n_updates, n_lists, deleted,
                 written>>

create_song(body, fail) ==
  /\ ValidSongBase(body)
  /\ next_uuid < MaxSongs
  /\ LET song_id == next_uuid + 1
         song == SongCreate(body)
         item == SongCRUD_create_song(song, song_id, None).ret
         call == IF fail THEN Failed(store) ELSE table_put_item(store, item)
         created_song == SongCRUD_create_song(song, song_id, call.out)
     IN /\ store' = call.table
        /\ IF "exc" \in DOMAIN created_song
           THEN /\ resp' = Response("create_song", 0, body, "raised",
                              HTTP_500_INTERNAL_SERVER_ERROR, None,
                              <<"put_item">>)
                /\ UNCHANGED <<next_uuid, written>>
           ELSE /\ resp' = Serialize("create_song", song_id, body,
                              HTTP_201_CREATED, created_song.ret,
                              <<"put_item">>)
                /\ next_uuid' = song_id
                /\ written' = [k \in DOMAIN written \cup {song_id} |->
                                 IF k = song_id THEN created_song.ret
                                 ELSE written[k]]
  /\ UNCHANGED <<inflight, n_updates, n_lists, deleted>>

\* ---- SongCRUD.get_song_by_id and GET /songs/{song_id}
SongCRUD_get_song_by_id(out) ==
  IF Raised(out) THEN Raise ELSE Return(Get(out, "Item"))

get_song_response(song_id, out) ==
  LET song == SongCRUD_get_song_by_id(out)
  IN IF "exc" \in DOMAIN song
     THEN Response("get_song", song_id, None, "raised",
                   HTTP_500_INTERNAL_SERVER_ERROR, None, <<"get_item">>)
     ELSE IF song.ret = None
     THEN Response("get_song", song_id, None, "not_found",
                   HTTP_404_NOT_FOUND, None, <<"get_item">>)
     ELSE Serialize("get_song", song_id, None, HTTP_200_OK, song.ret,
                    <<"get_item">>)

get_song(song_id, fail) ==
  LET call == IF fail THEN Failed(store) ELSE table_get_item(store, song_id)
  IN /\ resp' = get_song_response(song_id, call.out)
     /\ UNCHANGED <<store, next_uuid, inflight, n_updates, n_lists, deleted,
                    written>>

\* ---- SongCRUD.delete_song and DELETE /songs/{song_id}
SongCRUD_delete_song(out) ==
  IF Raised(out) THEN Raise ELSE Return(Get(out, "Attributes"))

delete_song_response(song_id, out) ==
  LET deleted_song == SongCRUD_delete_song(out)
  IN IF "exc" \in DOMAIN deleted_song
     THEN Response("delete_song", song_id, None, "raised",
                   HTTP_500_INTERNAL_SERVER_ERROR, None, <<"delete_item">>)
     ELSE IF deleted_song.ret = None
     THEN Response("delete_song", song_id, None, "not_found",
                   HTTP_404_NOT_FOUND, None, <<"delete_item">>)
     ELSE Response("delete_song", song_id, None, "returned", HTTP_200_OK,
                   [message |-> "Song deleted successfully",
                    deleted_song |-> deleted_song.ret], <<"delete_item">>)

delete_song(song_id, fail) ==
  LET call == IF fail THEN Failed(store)
              ELSE table_delete_item(store, song_id)
  IN /\ store' = call.table
     /\ resp' = delete_song_response(song_id, call.out)
     /\ deleted' = IF "Attributes" \in DOMAIN call.out
                   THEN deleted \cup {song_id} ELSE deleted
     /\ written' = IF "Attributes" \in DOMAIN call.out
                   THEN [k \in DOMAIN written \ {song_id} |-> written[k]]
                   ELSE written
     /\ UNCHANGED <<next_uuid, inflight, n_updates, n_lists>>


\* ---- SongCRUD.update_song and PUT /songs/{song_id}
\* the SET expression, its attribute-name placeholders and its values
update_expression(song_data) ==
  LET name_part == IF "name" \in DOMAIN song_data
                   THEN <<[attr |-> "#name", val |-> ":name"]>> ELSE <<>>
      path_part == IF "path" \in DOMAIN song_data
                   THEN <<[attr |-> "#path", val |-> ":path"]>> ELSE <<>>
      plays_part == IF "plays" \in DOMAIN song_data
                    THEN <<[attr |-> "plays", val |-> ":plays"]>> ELSE <<>>
      named == DOMAIN song_data \cap {"name", "path"}
  IN [parts |-> name_part \o path_part \o plays_part,
      names |-> [h \in {"#" \o k : k \in named} |->
                   IF h = "#name" THEN "name" ELSE "path"],
      values |-> [v \in {":" \o k : k \in DOMAIN song_data} |->
                    CASE v = ":name" -> song_data.name
                      [] v = ":path" -> song_data.path
                      [] OTHER -> song_data.plays]]

\* (a variant without the "no fields to update" return)
SongCRUD_update_song_check_always_writes(song_data, out) ==
  LET existing_song == SongCRUD_get_song_by_id(out)
  IN IF "exc" \in DOMAIN existing_song THEN Raise
     ELSE IF existing_song.ret = None THEN Return(None)
     ELSE [call |-> update_expression(song_data)]

\* (a variant without the existence check)
SongCRUD_update_song_check_no_lookup(song_data, out) ==
  LET expr == update_expression(song_data)
  IN IF Raised(out) THEN Raise
     ELSE IF Len(expr.parts) = 0 THEN Return(Get(out, "Item"))
     ELSE [call |-> expr]

\* up to the update_item call: the outcome, or the call to make
SongCRUD_update_song_check(song_data, out) ==
  LET existing_song == SongCRUD_get_song_by_id(out)
      expr == update_expression(song_data)
  IN IF "exc" \in DOMAIN existing_song THEN Raise
     ELSE IF existing_song.ret = None THEN Return(None)
     ELSE IF Len(expr.parts) = 0 THEN Return(existing_song.ret)
     ELSE [call |-> expr]

\* from the update_item call on
SongCRUD_update_song_write(out) ==
  IF Raised(out) THEN Raise ELSE Return(Get(out, "Attributes"))

update_song_response(song_id, body, updated_song, calls) ==
  IF "exc" \in DOMAIN updated_song
  THEN Response("update_song", song_id, body, "raised",
                HTTP_500_INTERNAL_SERVER_ERROR, None, calls)
  ELSE IF updated_song.ret = None
  THEN Response("update_song", song_id, body, "not_found",
                HTTP_404_NOT_FOUND, None, calls)
  ELSE Serialize("update_song", song_id, body, HTTP_200_OK, updated_song.ret,
                 calls)

update_song_rejected(song_id, body) ==
  /\ ~ValidSongUpdate(body)
  /\ resp' = Response("update_song", song_id, body, "rejected",
                      HTTP_422_UNPROCESSABLE_ENTITY, None, <<>>)
  /\ UNCHANGED <<store, next_uuid, inflight, n_updates, n_lists, deleted,
                 written>>

update_song(song_id, body, fail) ==
  /\ ValidSongUpdate(body)
  /\ LET call == IF fail THEN Failed(store)
                 ELSE table_get_item(store, song_id)
         outcome == SongCRUD_update_song_check(body, call.out)
     IN IF "call" \in DOMAIN outcome
        THEN /\ n_updates < MaxUpdates
             /\ n_updates' = n_updates + 1
             /\ inflight' = inflight \cup
                  {[op |-> "update_song", rid |-> n_updates + 1,
                    song_id |-> song_id, song_data |-> body]}
             /\ UNCHANGED resp
        ELSE /\ resp' = update_song_response(song_id, body, outcome,
                                             <<"get_item">>)
             /\ UNCHANGED <<inflight, n_updates>>
  /\ UNCHANGED <<store, next_uuid, n_lists, deleted, written>>

update_song_write(r, fail) ==
  /\ r.op = "update_song"
  /\ LET expr == update_expression(r.song_data)
         call == IF fail THEN Failed(store)
                 ELSE table_update_item(store, r.song_id, expr.parts,
                                        expr.names, expr.values)
         updated_song == SongCRUD_update_song_write(call.out)
     IN /\ store' = call.table
        /\ resp' = update_song_response(r.song_id, r.song_data, updated_song,
                                        <<"get_item", "update_item">>)
        /\ written' = IF "Attributes" \in DOMAIN call.out
                      THEN [k \in DOMAIN written \cup {r.song_id} |->
                              IF k = r.song_id THEN call.out.Attributes
                              ELSE written[k]]
                      ELSE written
  /\ inflight' = inflight \ {r}
  /\ UNCHANGED <<next_uuid, n_updates, n_lists, deleted>>

\* ---- SongCRUD.get_all_songs and GET /songs
ScanOuts(tbl, start) ==
  {table_scan(tbl, start, c[1], c[2]).out : c \in ScanChoices(tbl, start)}
    \cup {ClientError}

\* (a variant that returns after the first page)
SongCRUD_get_all_songs_first_page(songs, out) ==
  IF Raised(out) THEN Raise ELSE Return(songs \o Get(out, "Items"))

\* (a variant that keeps only the page just received)
SongCRUD_get_all_songs_overwrite(songs, out) ==
  IF Raised(out) THEN Raise
  ELSE IF "LastEvaluatedKey" \in DOMAIN out
       THEN [songs |-> Get(out, "Items"), response |-> out]
       ELSE Return(Get(out, "Items"))

\* one turn of the pagination loop on the page just received
SongCRUD_get_all_songs(songs, out) ==
  IF Raised(out) THEN Raise
  ELSE LET all == songs \o Get(out, "Items")
       IN IF "LastEvaluatedKey" \in DOMAIN out
          THEN [songs |-> all, response |-> out]
          ELSE Return(all)

get_songs_response(songs, pages) ==
  LET r == IF "exc" \in DOMAIN songs
           THEN Response("get_songs", 0, None, "raised",
                         HTTP_500_INTERNAL_SERVER_ERROR, None, <<>>)
           ELSE IF \A i \in 1..Len(songs.ret) : ValidSongResponse(songs.ret[i])
           THEN Response("get_songs", 0, None, "returned", HTTP_200_OK,
                         [i \in 1..Len(songs.ret) |->
                            SongResponse(songs.ret[i])], <<>>)
           ELSE Response("get_songs", 0, None, "returned",
                         HTTP_500_INTERNAL_SERVER_ERROR, None, <<>>)
  IN [r EXCEPT !.pages = pages,
               !.calls = [i \in 1..Len(pages) |-> "scan"]]

get_songs(out) ==
  /\ LET outcome == SongCRUD_get_all_songs(<<>>, out)
     IN IF "response" \in DOMAIN outcome
        THEN /\ n_lists < MaxLists
             /\ n_lists' = n_lists + 1
             /\ inflight' = inflight \cup
                  {[op |-> "get_songs", rid |-> n_lists + 1,
                    songs |-> outcome.songs, response |-> outcome.response,
                    pages |-> <<out>>]}
             /\ UNCHANGED resp
        ELSE /\ resp' = get_songs_response(outcome, <<out>>)
             /\ UNCHANGED <<inflight, n_lists>>
  /\ UNCHANGED <<store, next_uuid, n_updates, deleted, written>>

get_songs_next(r, out) ==
  /\ r.op = "get_songs"
  /\ LET outcome == SongCRUD_get_all_songs(r.songs, out)
         pages == Append(r.pages, out)
     IN IF "response" \in DOMAIN outcome
        THEN /\ inflight' = (inflight \ {r}) \cup
                  {[r EXCEPT !.songs = outcome.songs,
                             !.response = outcome.response,
                             !.pages = pages]}
             /\ UNCHANGED resp
        ELSE /\ resp' = get_songs_response(outcome, pages)
             /\ inflight' = inflight \ {r}
  /\ UNCHANGED <<store, next_uuid, n_updates, n_lists, deleted, written>>

\* ---- the transport hands the response to the client
deliver ==
  /\ resp # NoResponse
  /\ resp' = NoResponse
  /\ UNCHANGED <<store, next_uuid, inflight, n_updates, n_lists, deleted,
                 written, overlap>>
  /\ UNCHANGED <<dbvars, history>>

\* ---- database.DynamoDBConfig
AwsStates == {"available", "missing", "unreachable"}

Resource == [service |-> "dynamodb"]

\* resource.Table(name): a handle, not yet checked against DynamoDB
Table(name) == [name |-> name, loaded |-> FALSE]

\* boto3.resource(...): the memoized resource, created on first use
DynamoDBConfig_dynamodb_resource(resource, fail) ==
  IF resource # None THEN [resource |-> resource, out |-> Return(resource)]
  ELSE IF fail THEN [resource |-> None, out |-> Raise]
  ELSE [resource |-> Resource, out |-> Return(Resource)]

\* Table.load(): DescribeTable fills the handle or raises a ClientError
Table_load(handle, state) ==
  CASE state = "available" -> Return([handle EXCEPT !.loaded = TRUE])
    [] state = "missing" -> [exc |-> "ResourceNotFoundException"]
    [] OTHER -> [exc |-> "ClientError"]

\* the song store after SongCRUD() was built at import
SongsInit ==
  /\ store = None
  /\ next_uuid = 0
  /\ inflight = {}
  /\ n_updates = 0
  /\ n_lists = 0
  /\ resp = NoResponse
  /\ deleted = {}
  /\ written = None
  /\ overlap = FALSE

\* db_config once get_table() has returned the table to SongCRUD.__init__
Connected ==
  /\ _dynamodb_resource = Resource
  /\ _table = [Table("TBL_SONG") EXCEPT !.loaded = TRUE]
  /\ aws = "available"
  /\ caller = "idle"
  /\ accesses = <<>>

NoHistory == [before |-> None, calls |-> <<>>]

Init == SongsInit /\ Connected /\ history = NoHistory

\* a request arrives: it overlaps the requests already in flight
Arrives ==
  /\ resp = NoResponse
  /\ overlap' = (overlap \/ inflight # {})
  /\ UNCHANGED <<dbvars, history>>

\* a suspended request resumes
Resumes ==
  /\ resp = NoResponse
  /\ UNCHANGED overlap
  /\ UNCHANGED <<dbvars, history>>

Next ==
  \/ \E body \in Bodies : Arrives /\ create_song_rejected(body)
  \/ \E body \in Bodies, fail \in BOOLEAN : Arrives /\ create_song(body, fail)
  \/ \E song_id \in SongIds, fail \in BOOLEAN :
       Arrives /\ get_song(song_id, fail)
  \/ \E song_id \in SongIds, fail \in BOOLEAN :
       Arrives /\ delete_song(song_id, fail)
  \/ \E song_id \in SongIds, body \in Bodies :
       Arrives /\ update_song_rejected(song_id, body)
  \/ \E song_id \in SongIds, body \in Bodies, fail \in BOOLEAN :
       Arrives /\ update_song(song_id, body, fail)
  \/ \E r \in inflight, fail \in BOOLEAN : Resumes /\ update_song_write(r, fail)
  \/ \E out \in ScanOuts(store, 0) : Arrives /\ get_songs(out)
  \/ \E r \in inflight :
       /\ Resumes
       /\ r.op = "get_songs"
       /\ \E out \in ScanOuts(store, r.response.LastEvaluatedKey) :
            get_songs_next(r, out)
  \/ deliver

Spec == Init /\ [][Next]_vars

\* ---- db_config.table, accessed through get_table()
\* the getter up to the load() call
DynamoDBConfig_table(fail) ==
  /\ caller = "idle"
  /\ Len(accesses) < MaxAccesses
  /\ IF _table # None
     THEN /\ accesses' = Append(accesses, [aws |-> aws, out |-> Return(_table)])
          /\ UNCHANGED <<_dynamodb_resource, _table, caller>>
     ELSE LET res == DynamoDBConfig_dynamodb_resource(_dynamodb_resource, fail)
          IN /\ _dynamodb_resource' = res.resource
             /\ IF "exc" \in DOMAIN res.out
                THEN /\ accesses' = Append(accesses,
                                           [aws |-> aws, out |-> res.out])
                     /\ UNCHANGED <<_table, caller>>
                ELSE /\ _table' = Table("TBL_SONG")
                     /\ caller' = "load"
                     /\ UNCHANGED accesses
  /\ UNCHANGED <<aws, history>>
  /\ UNCHANGED songvars

\* the getter from the load() call on
DynamoDBConfig_table_load ==
  /\ caller = "load"
  /\ LET out == Table_load(_table, aws)
     IN IF "ret" \in DOMAIN out
        THEN /\ _table' = out.ret
             /\ accesses' = Append(accesses,
                                   [aws |-> aws, out |-> Return(out.ret)])
        ELSE /\ UNCHANGED _table
             /\ accesses' =
                  Append(accesses,
                         [aws |-> aws,
                          out |-> IF out.exc = "ResourceNotFoundException"
                                  THEN [exc |-> "ValueError"] ELSE out])
  /\ caller' = "idle"
  /\ UNCHANGED <<_dynamodb_resource, aws, history>>
  /\ UNCHANGED songvars

\* the table is created, dropped, or DynamoDB stops answering
aws_changes(state) ==
  /\ state # aws
  /\ aws' = state
  /\ UNCHANGED <<_dynamodb_resource, _table, caller, accesses, history>>
  /\ UNCHANGED songvars

\* db_config = DynamoDBConfig(), whatever the state of the table
InitDatabase ==
  /\ SongsInit
  /\ _dynamodb_resource = None
  /\ _table = None
  /\ aws \in AwsStates
  /\ caller = "idle"
  /\ accesses = <<>>
  /\ history = NoHistory

NextDatabase ==
  \/ \E fail \in BOOLEAN : DynamoDBConfig_table(fail)
  \/ DynamoDBConfig_table_load
  \/ \E state \in AwsStates : aws_changes(state)

SpecDatabase == InitDatabase /\ [][NextDatabase]_vars

\* ---- concurrent PUT /songs/{song_id} on one stored song
\* the songs POST /songs can have stored under the first id
StoredSongs ==
  { SongCRUD_create_song(SongCreate(body), 1, None).ret :
      body \in {b \in WellFormedBodies : ValidSongBase(b)} }

\* the change sets that reach update_item
ChangeSets == {b \in WellFormedBodies : b # None}

\* one song is stored, and a first update of it has passed its pre-check
InitUpdates ==
  /\ \E song \in StoredSongs :
       /\ store = [k \in {1} |-> song]
       /\ written = [k \in {1} |-> song]
       /\ history = [before |-> song, calls |-> <<>>]
  /\ \E body \in ChangeSets :
       inflight = {[op |-> "update_song", rid |-> 0, song_id |-> 1,
                    song_data |-> body]}
  /\ next_uuid = 1
  /\ n_updates = 0
  /\ n_lists = 0
  /\ resp = NoResponse
  /\ deleted = {}
  /\ overlap = FALSE
  /\ Connected

NextUpdates ==
  \/ \E body \in Bodies, fail \in BOOLEAN :
       Arrives /\ update_song(1, body, fail)
  \/ \E r \in inflight, fail \in BOOLEAN :
       /\ resp = NoResponse
       /\ update_song_write(r, fail)
       /\ history' = [history EXCEPT !.calls =
                        Append(@, [song_data |-> r.song_data, fail |-> fail])]
       /\ UNCHANGED <<overlap, dbvars>>
  \/ deliver

SpecUpdates == InitUpdates /\ [][NextUpdates]_vars

(***************************************************************************)
(* Claims                                                                  *)
(***************************************************************************)

\* the Song field constraints on a create body, as the specification gives
\* them
SatisfiesCreateConstraints(body) ==
  /\ "name" \in DOMAIN body
  /\ body.name >= 1
  /\ body.name <= 200
  /\ "path" \in DOMAIN body
  /\ ("plays" \in DOMAIN body => body.plays >= 0)

\* C1: every valid create input is stored, unless the store fails, under an
\* id that was never in the store, and a GetById on the returned id right
\* after yields the item Create returned: the id, the name and path given,
\* and the plays given, or 0 when plays was omitted.
C1_CreateThenGetById ==
  [][/\ (/\ resp'.op = "create_song"
         /\ SatisfiesCreateConstraints(resp'.input)
         /\ resp'.outcome # "raised")
        => resp'.status = 201
     /\ (resp'.op = "create_song" /\ resp'.status = 201)
        => LET id == resp'.id
               body == resp'.input
               created == [id |-> id, name |-> body.name, path |-> body.path,
                           plays |-> IF "plays" \in DOMAIN body
                                     THEN body.plays ELSE 0]
               got == get_song_response(id, table_get_item(store', id).out)
           IN /\ id \notin DOMAIN store
              /\ id \notin deleted
              /\ id \in DOMAIN store'
              /\ store'[id] = created
              /\ resp'.body = created
              /\ got.status = 200
              /\ got.body = resp'.body]_vars

C1_Witness ==
  /\ resp.op = "create_song"
  /\ resp.status = 201
  /\ "plays" \notin DOMAIN resp.input
  /\ resp.input.name = 200
  /\ resp.body.plays = 0
  /\ store[resp.id] = resp.body
  /\ resp.id = 2

\* C2: once Delete(id) has removed a song, every GetById(id) that the store
\* answers yields 404, whatever other requests are in flight.
C2_DeleteThenGetNotFound ==
  (resp.op = "get_song" /\ resp.id \in deleted /\ resp.outcome # "raised")
    => resp.status = 404

\* C3: an Update of an existing song that supplies a non-empty subset of
\* {name, path, plays} succeeds with 200 when the store is available, sets
\* exactly the supplied fields, leaves the id and the other fields as they
\* were, and returns the resulting full item.
C3_PartialUpdate ==
  [][\A r \in inflight :
       (/\ r.op = "update_song"
        /\ r.song_id \in DOMAIN store
        /\ update_song_write(r, FALSE))
       => LET old == store[r.song_id]
              new == store'[r.song_id]
          IN /\ resp'.status = 200
             /\ DOMAIN new = DOMAIN old \cup DOMAIN r.song_data
             /\ \A k \in DOMAIN r.song_data : new[k] = r.song_data[k]
             /\ \A k \in DOMAIN old \ DOMAIN r.song_data : new[k] = old[k]
             /\ resp'.body = new]_vars

\* C4: Update(id, {}) on an existing song issues no write, leaves the store
\* as it was, and answers as the GetById before it does.
C4_EmptyUpdateNoOp ==
  [][\A id \in SongIds :
       (id \in DOMAIN store /\ update_song(id, None, FALSE))
       => LET got == get_song_response(id, table_get_item(store, id).out)
          IN /\ resp' # NoResponse
             /\ store' = store
             /\ inflight' = inflight
             /\ resp'.calls = <<"get_item">>
             /\ resp'.status = got.status
             /\ resp'.body = got.body
             /\ (SatisfiesCreateConstraints(
                   [k \in DOMAIN store[id] \cap Fields |-> store[id][k]])
                 => resp'.status = 200 /\ resp'.body.id = id)]_vars

C4_Witness ==
  /\ resp.op = "update_song"
  /\ resp.input = None
  /\ resp.status = 200
  /\ resp.calls = <<"get_item">>
  /\ resp.id \in DOMAIN store
  /\ resp.body = store[resp.id]

\* C5: after a sequence of requests served one at a time, with N successful
\* Creates and M successful Deletes, a List the store answers returns exactly
\* N-M songs: one per created and not deleted id, each as last written.
C5_ListAfterCreatesAndDeletes ==
  (resp.op = "get_songs" /\ ~overlap /\ resp.outcome # "raised")
    => LET body == resp.body
           live == (1..next_uuid) \ deleted
       IN /\ resp.status = 200
          /\ Len(body) = next_uuid - Cardinality(deleted)
          /\ {body[i].id : i \in 1..Len(body)} = live
          /\ \A i, j \in 1..Len(body) : i # j => body[i].id # body[j].id
          /\ \A i \in 1..Len(body) : body[i] = written[body[i].id]

C5_Witness ==
  /\ resp.op = "get_songs"
  /\ ~overlap
  /\ resp.status = 200
  /\ next_uuid = 2
  /\ deleted = {1}
  /\ n_updates = 1
  /\ Len(resp.body) = 1
  /\ resp.body[1].id = 2
  /\ resp.body[1].name = 200
  /\ Len(resp.pages) = 2

\* C6: every persisted item has an id, a name of 1-200 characters, a path
\* and no negative plays, under any interleaving of requests.
C6_PersistedItemsWellFormed ==
  \A id \in DOMAIN store :
    LET item == store[id]
    IN /\ "id" \in DOMAIN item
       /\ "name" \in DOMAIN item
       /\ item.name >= 1
       /\ item.name <= 200
       /\ "path" \in DOMAIN item
       /\ ("plays" \in DOMAIN item => item.plays >= 0)

\* C7: an Update whose existence pre-check finds the id absent answers 404
\* after the get_item call alone: update_item is never called and the store
\* is unchanged, whatever the change set.
C7_UpdateAbsentShortCircuits ==
  [][\A id \in SongIds, body \in Bodies :
       (id \notin DOMAIN store /\ update_song(id, body, FALSE))
       => /\ resp' # NoResponse
          /\ resp'.status = 404
          /\ resp'.calls = <<"get_item">>
          /\ store' = store
          /\ inflight' = inflight]_vars

C7_Witness ==
  /\ resp.op = "update_song"
  /\ resp.status = 404
  /\ DOMAIN resp.input = {"name", "plays"}
  /\ resp.calls = <<"get_item">>
  /\ resp.id \notin DOMAIN store
  /\ store # None

\* the Song field constraints an update body can violate
ViolatesUpdateConstraints(body) ==
  \/ ("name" \in DOMAIN body /\ (body.name < 1 \/ body.name > 200))
  \/ ("plays" \in DOMAIN body /\ body.plays < 0)

\* C8: a Create or Update whose body violates the field constraints is
\* answered 422 before the service runs: no storage call, store unchanged.
C8_InvalidBodyRejected ==
  [][(\/ (resp'.op = "create_song"
          /\ ~SatisfiesCreateConstraints(resp'.input))
      \/ (resp'.op = "update_song"
          /\ ViolatesUpdateConstraints(resp'.input)))
     => /\ resp'.status = 422
        /\ resp'.outcome = "rejected"
        /\ resp'.calls = <<>>
        /\ store' = store
        /\ inflight' = inflight]_vars

C8_Witness ==
  /\ resp.op = "create_song"
  /\ resp.status = 422
  /\ DOMAIN resp.input = {"name", "path"}
  /\ resp.input.name = 201
  /\ resp.calls = <<>>
  /\ store # None

\* C9: a handler's status follows the service's outcome: 404 exactly when it
\* returned not-found, 500 exactly when the storage call raised, 201 for a
\* Create that returned, 200 for any other that returned, a Delete's body
\* being the deleted item with a confirmation message.
C9_StatusFollowsOutcome ==
  (resp # NoResponse /\ resp.outcome # "rejected")
    => /\ (resp.status = 404 <=> resp.outcome = "not_found")
       /\ (resp.status = 500 <=> resp.outcome = "raised")
       /\ (resp.outcome = "returned"
           => resp.status = IF resp.op = "create_song" THEN 201 ELSE 200)
       /\ (resp.op = "delete_song" /\ resp.outcome = "returned"
           => /\ DOMAIN resp.body = {"message", "deleted_song"}
              /\ resp.body.deleted_song.id = resp.id)

\* the items of a sequence of scan pages, in page order
RECURSIVE ItemsOf(_)
ItemsOf(pages) ==
  IF pages = <<>> THEN <<>>
  ELSE ItemsOf(SubSeq(pages, 1, Len(pages) - 1))
         \o pages[Len(pages)].Items

\* each page but the first starts after the cursor of the page before it
CursorFollowed(pages) ==
  \A i \in 1..Len(pages) - 1 :
    Raised(pages[i + 1])
    \/ \A j \in 1..Len(pages[i + 1].Items) :
         pages[i + 1].Items[j].id > pages[i].LastEvaluatedKey

\* C10: get_all_songs scans on from each page's cursor while the page has
\* one, holds the concatenation of the pages received, and returns it on the
\* first page without a cursor (the handler serialises each item of it).
C10_PaginationConcatenates ==
  /\ \A r \in inflight :
       r.op = "get_songs"
       => /\ r.songs = ItemsOf(r.pages)
          /\ r.response = r.pages[Len(r.pages)]
          /\ \A i \in 1..Len(r.pages) :
               "LastEvaluatedKey" \in DOMAIN r.pages[i]
          /\ CursorFollowed(r.pages)
  /\ resp.op = "get_songs"
     => LET pages == resp.pages
            n == Len(pages)
        IN /\ n >= 1
           /\ \A i \in 1..n - 1 : "LastEvaluatedKey" \in DOMAIN pages[i]
           /\ CursorFollowed(pages)
           /\ ~Raised(pages[n])
              => /\ "LastEvaluatedKey" \notin DOMAIN pages[n]
                 /\ resp.outcome = "returned"
                 /\ resp.status = 200
                    => /\ Len(resp.body) = Len(ItemsOf(pages))
                       /\ \A i \in 1..Len(resp.body) :
                            resp.body[i] = SongResponse(ItemsOf(pages)[i])

C10_Witness ==
  /\ resp.op = "get_songs"
  /\ resp.status = 200
  /\ Len(resp.pages) = 3
  /\ Len(resp.body) = 2
  /\ resp.body[1].id = 1
  /\ resp.body[2].id = 2

\* C11: songs are created only via Create: no step of an Update or a Delete
\* adds to the store an id that was absent just before the step, under any
\* interleaving; an Update whose target was deleted after its pre-check does
\* not re-create the item.
C11_CreatedOnlyViaCreate ==
  [][\A id \in SongIds :
       (id \notin DOMAIN store /\ id \in DOMAIN store')
       => resp'.op = "create_song"]_vars

\* C12: the table handle is memoized only once load() has succeeded on it:
\* between accesses db_config holds no handle or a verified one, and every
\* handle an access returned, a second access after a failed one included,
\* was verified.
C12_HandleVerifiedBeforeMemoized ==
  /\ (caller = "idle" /\ _table # None) => _table.loaded
  /\ \A i \in 1..Len(accesses) :
       "ret" \in DOMAIN accesses[i].out => accesses[i].out.ret.loaded

\* the values the update_item calls made so far supplied for field k
Supplied(k) ==
  { history.calls[i].song_data[k] :
      i \in { j \in 1..Len(history.calls) :
                k \in DOMAIN history.calls[j].song_data } }

\* how many of the update_item calls made so far supplied field k
Suppliers(k) ==
  Cardinality({ j \in 1..Len(history.calls) :
                  k \in DOMAIN history.calls[j].song_data })

\* C13: when several Updates of one existing song have run concurrently and
\* all completed, with the store available and no Delete, each field of the
\* stored song is its value before the Updates or a value one of them
\* supplied for it, and a field only one of them supplied has that value.
C13_ConcurrentUpdatesPerField ==
  (/\ overlap
   /\ inflight = {}
   /\ Len(history.calls) >= 2
   /\ \A i \in 1..Len(history.calls) : ~history.calls[i].fail)
    => /\ 1 \in DOMAIN store
       /\ DOMAIN store[1] = DOMAIN history.before
       /\ \A k \in Fields :
            /\ store[1][k] \in {history.before[k]} \cup Supplied(k)
            /\ Suppliers(k) = 1 => store[1][k] \in Supplied(k)
       /\ store[1].id = history.before.id
====
